---- MODULE Spec2Model ----
(***************************************************************************)
(* Model of src/BloggerApp.jsx: the App component's React state, its two   *)
(* effects (identity-provider listener, collection subscription) and its   *)
(* form handlers.  The identity provider and the remote store are the      *)
(* environment: their events and answers are nondeterministic.             *)
(*                                                                         *)
(* A state update and the effect run it causes are one step: React runs    *)
(* an effect's cleanup and then its body for every committed change of a   *)
(* dependency, before the component handles the next state update.         *)
(***************************************************************************)
EXTENDS Integers, Sequences, FiniteSets, Bags, TLC

(* ------------------------------ bounds --------------------------------- *)
MaxDocs == 2          \* documents in one delivered snapshot
MaxInFlight == 1      \* write calls awaiting the store's answer (Spec)
MaxFormInFlight == 2  \* write calls awaiting the store's answer (SpecForm)

(* --------------------------- value universes --------------------------- *)
None == "none"                       \* JavaScript null (useState(null))
Users == {"u1", "u2"}                \* uids the identity provider hands out
DocIds == {"p1", "p2", "p3"}             \* document ids the store assigns
FieldNames == {"title", "description", "author"}
NonEmptyText(f) == CASE f = "title" -> "t" [] f = "description" -> "d" [] OTHER -> "a"
FieldValues(f) == {"", NonEmptyText(f)}
Pending == -1                        \* doc.data().timestamp of a pending write: null
Timestamps == {Pending, 1, 2}
appId == "app1"

Docs == [id : DocIds, title : {"t"}, description : {"d"}, author : {"a"},
         timestamp : Timestamps]

DistinctIds(s) == \A i, j \in 1..Len(s) : i # j => s[i].id # s[j].id

SnapshotsOf(D, max) == {s \in UNION {[1..n -> D] : n \in 0..max} : DistinctIds(s)}

\* what the store may deliver: any documents in any order (SpecList) ...
Snapshots == SnapshotsOf(Docs, MaxDocs)

\* ... or, where the form is exercised, a collection that is empty or holds
\* the one post p1 with a resolved timestamp
FormSnapshots == SnapshotsOf({d \in Docs : d.id = "p1" /\ d.timestamp = 1}, 1)

VARIABLES
  phase,            \* "init" before the first commit, "mounted", "unmounted"
  firebaseConfig,   \* "ok" | "empty" | "throws": the injected configuration
  initialAuthToken, \* TRUE iff a bootstrap token was injected
  db,               \* TRUE once setDb(firestore) has run
  userId,           \* useState(null)
  loading,          \* useState(true)
  blogs,            \* useState([])
  title, description, author, editingId,   \* the form's state
  authListener,     \* TRUE while the onAuthStateChanged listener is registered
  idpUser,          \* the identity provider's current user
  authNotify,       \* TRUE iff the provider owes the listener a state-change event
  signIn,           \* "none" | "token" | "anon": the sign-in call being awaited
  subs,             \* user ids whose collection has a live onSnapshot listener
  effectSub,        \* what the last run of the subscription effect opened
  writes,           \* bag of the addDoc/updateDoc/deleteDoc calls awaiting their answer
  report,           \* what the last step showed or logged
  lastOp,           \* history: the answer to an awaited write the last step handled
  lastAuthEvent,    \* history: what the last state-change event carried
  lastSnapshot,     \* history: the last snapshot delivered, as delivered
  blogsFrom,        \* history: whose collection the last snapshot came from
  activationFailed  \* history: an initialisation, sign-in or subscribe failed

vars == <<phase, firebaseConfig, initialAuthToken, db, userId, loading, blogs,
          title, description, author, editingId, authListener, idpUser,
          authNotify, signIn, subs, effectSub, writes, report, lastOp,
          lastAuthEvent, lastSnapshot, blogsFrom, activationFailed>>

draft == <<title, description, author, editingId>>
formVars == <<title, description, author, editingId>>
sessionVars == <<authListener, idpUser, authNotify, signIn, lastAuthEvent>>
subVars == <<subs, effectSub>>
configVars == <<firebaseConfig, initialAuthToken>>
listVars == <<blogs, lastSnapshot, blogsFrom>>

(* ------------------------- pure functions ------------------------------ *)

\* b.timestamp - a.timestamp coerces its operands with ToNumber: null is 0,
\* a resolved Timestamp is its (positive) numeric value.
ToNumber(ts) == IF ts = Pending THEN 0 ELSE ts

\* the comparator of blogsData.sort: negative puts a first
Compare(a, b) == ToNumber(b.timestamp) - ToNumber(a.timestamp)

\* Array.prototype.sort is stable: insert x behind every element that does
\* not have to follow it.
RECURSIVE Insert(_, _)
Insert(x, s) ==
  IF s = <<>> THEN <<x>>
  ELSE IF Compare(x, Head(s)) < 0 THEN <<x>> \o s
       ELSE <<Head(s)>> \o Insert(x, Tail(s))

RECURSIVE SortBlogs(_)
SortBlogs(s) ==
  IF s = <<>> THEN <<>>
  ELSE Insert(s[Len(s)], SortBlogs(SubSeq(s, 1, Len(s) - 1)))

\* toLocaleString of a date: some text that shows the instant
LocaleString(ts) == "date " \o ToString(ts)

\* formatDate: a falsy timestamp (null, the pending write) gives the
\* placeholder; a Timestamp goes through toDate(), a number through new Date()
formatDate(ts) == IF ts = Pending THEN "N/A" ELSE LocaleString(ts)

\* what the list section renders: the loading line, the empty line, or one
\* date per post
DisplayedDates ==
  IF loading THEN <<>> ELSE [i \in 1..Len(blogs) |-> formatDate(blogs[i].timestamp)]

CollectionPathOfFirstUser(u) == <<"artifacts", appId, "users", "u1", "blog_posts">>

CollectionPath(u) == <<"artifacts", appId, "users", u, "blog_posts">>
DocPath(u, id) == CollectionPath(u) \o <<id>>

\* the object handed to addDoc and to updateDoc
blogData ==
  [title |-> title, description |-> description, author |-> author,
   timestamp |-> "serverTimestamp"]

\* the guard of handleSubmit, negated
CanSubmitNoAuthor == title # "" /\ description # "" /\ db /\ userId # None

CanSubmit == title # "" /\ description # "" /\ author # "" /\ db /\ userId # None

EffectCleanupNone(s, e) == s

\* return () => unsubscribe(): closes what the previous run opened
EffectCleanup(s, e) == IF e = None THEN s ELSE s \ {e}

\* One run of the subscription effect for the new values of its dependencies:
\* cleanup of the previous run, then the body.  collection() and onSnapshot()
\* throw only for a malformed path, and every segment here is a non-empty
\* constant or the uid, so the catch branch is not taken.
SubscriptionEffect(newDb, newUserId) ==
  IF ~newDb \/ newUserId = None
  THEN /\ subs' = EffectCleanup(subs, effectSub)
       /\ effectSub' = None
  ELSE /\ subs' = EffectCleanup(subs, effectSub) \cup {newUserId}
       /\ effectSub' = newUserId

(* ------------------------------ Init ----------------------------------- *)
Init ==
  /\ phase = "init"
  /\ firebaseConfig \in {"ok", "empty", "throws"}
  /\ initialAuthToken \in BOOLEAN
  /\ db = FALSE
  /\ userId = None
  /\ loading = TRUE
  /\ blogs = <<>>
  /\ title = "" /\ description = "" /\ author = "" /\ editingId = None
  /\ authListener = FALSE
  /\ idpUser \in Users \cup {None}
  /\ authNotify = FALSE
  /\ signIn = "none"
  /\ subs = {}
  /\ effectSub = None
  /\ writes = EmptyBag
  /\ report = "none"
  /\ lastOp = "none"
  /\ lastAuthEvent = "none"
  /\ lastSnapshot = <<>>
  /\ blogsFrom = None
  /\ activationFailed = FALSE

(* --------------------- initialisation effect --------------------------- *)
\* The first commit runs both effects.  The subscription effect returns at
\* once (userId is null), also when it re-runs for the new db.
Mount ==
  /\ phase = "init"
  /\ phase' = "mounted"
  /\ lastOp' = "none"
  /\ CASE firebaseConfig = "empty" ->
            /\ report' = "error:config"
            /\ UNCHANGED <<db, loading, authListener, authNotify, activationFailed>>
       [] firebaseConfig = "throws" ->
            /\ report' = "error:init"
            /\ loading' = FALSE
            /\ activationFailed' = TRUE
            /\ UNCHANGED <<db, authListener, authNotify>>
       [] OTHER ->
            /\ db' = TRUE
            /\ authListener' = TRUE
            /\ authNotify' = TRUE
            /\ report' = "none"
            /\ UNCHANGED <<loading, activationFailed>>
  /\ SubscriptionEffect(db', userId)
  /\ UNCHANGED <<configVars, userId, listVars, formVars, idpUser, signIn,
                 writes, lastAuthEvent>>

\* Unmounting runs the cleanups of both effects.
Unmount ==
  /\ phase = "mounted"
  /\ phase' = "unmounted"
  /\ lastOp' = "none"
  /\ authListener' = FALSE
  /\ subs' = EffectCleanup(subs, effectSub)
  /\ effectSub' = None
  /\ report' = "none"
  /\ UNCHANGED <<configVars, db, userId, loading, listVars, formVars, idpUser,
                 authNotify, signIn, writes, lastAuthEvent, activationFailed>>

(* ------------------- onAuthStateChanged callback ----------------------- *)
AuthStateChangedClearsUser ==
  /\ phase = "mounted"
  /\ authListener
  /\ authNotify
  /\ authNotify' = FALSE
  /\ IF idpUser # None
     THEN /\ userId' = idpUser
          /\ loading' = FALSE
          /\ lastOp' = "none"
          /\ lastAuthEvent' = "present"
          /\ report' = "none"
          /\ IF idpUser # userId
             THEN SubscriptionEffect(db, idpUser)
             ELSE UNCHANGED subVars
          /\ UNCHANGED <<signIn, activationFailed>>
     ELSE /\ signIn' = IF initialAuthToken THEN "token" ELSE "anon"
          /\ userId' = None
          /\ SubscriptionEffect(db, None)
          /\ lastOp' = "none"
          /\ lastAuthEvent' = "absent"
          /\ report' = "none"
          /\ UNCHANGED <<loading, activationFailed>>
  /\ UNCHANGED <<phase, configVars, db, listVars, formVars, authListener,
                 idpUser, writes>>

\* A present user: setUserId, setLoading(false); the subscription effect
\* re-runs when userId changed.  No user: one sign-in call is awaited.
AuthStateChanged ==
  /\ phase = "mounted"
  /\ authListener
  /\ authNotify
  /\ authNotify' = FALSE
  /\ IF idpUser # None
     THEN /\ userId' = idpUser
          /\ loading' = FALSE
          /\ lastOp' = "none"
          /\ lastAuthEvent' = "present"
          /\ report' = "none"
          /\ IF idpUser # userId
             THEN SubscriptionEffect(db, idpUser)
             ELSE UNCHANGED subVars
          /\ UNCHANGED <<signIn, activationFailed>>
     ELSE /\ signIn' = IF initialAuthToken THEN "token" ELSE "anon"
          /\ lastOp' = "none"
          /\ lastAuthEvent' = "absent"
          /\ report' = "none"
          /\ UNCHANGED <<userId, loading, subVars, activationFailed>>
  /\ UNCHANGED <<phase, configVars, db, listVars, formVars, authListener,
                 idpUser, writes>>

\* The awaited sign-in call resolves: the provider has a user and owes the
\* listener an event.  The callback itself does nothing more.
SignInResolved(u) ==
  /\ phase = "mounted"
  /\ signIn # "none"
  /\ signIn' = "none"
  /\ idpUser' = u
  /\ authNotify' = TRUE
  /\ report' = "none"
  /\ lastOp' = "none"
  /\ UNCHANGED <<phase, configVars, db, userId, loading, listVars, formVars,
                 authListener, subVars, writes, lastAuthEvent, activationFailed>>

SignInRejectedRetries ==
  /\ phase = "mounted"
  /\ signIn # "none"
  /\ signIn' = signIn
  /\ loading' = FALSE
  /\ report' = "error:auth"
  /\ activationFailed' = TRUE
  /\ lastOp' = "none"
  /\ UNCHANGED <<phase, configVars, db, userId, listVars, formVars,
                 authListener, idpUser, authNotify, subVars, writes,
                 lastAuthEvent>>

\* The awaited sign-in call rejects: catch logs and clears loading.
SignInRejected ==
  /\ phase = "mounted"
  /\ signIn # "none"
  /\ signIn' = "none"
  /\ loading' = FALSE
  /\ report' = "error:auth"
  /\ activationFailed' = TRUE
  /\ lastOp' = "none"
  /\ UNCHANGED <<phase, configVars, db, userId, listVars, formVars,
                 authListener, idpUser, authNotify, subVars, writes,
                 lastAuthEvent>>

\* Environment: the provider's user goes away (sign-out elsewhere, revoked
\* session); the provider owes the listener an event.
ExternalSignOut ==
  /\ phase = "mounted"
  /\ idpUser # None
  /\ signIn = "none"
  /\ idpUser' = None
  /\ authNotify' = TRUE
  /\ report' = "none"
  /\ lastOp' = "none"
  /\ UNCHANGED <<phase, configVars, db, userId, loading, listVars, formVars,
                 authListener, signIn, subVars, writes, lastAuthEvent,
                 activationFailed>>

(* ------------------------ onSnapshot callbacks ------------------------- *)
SnapshotDeliveredDropsEdit(u, snap) ==
  /\ phase = "mounted"
  /\ u \in subs
  /\ blogs' = SortBlogs(snap)
  /\ loading' = FALSE
  /\ lastSnapshot' = snap
  /\ blogsFrom' = u
  /\ report' = "none"
  /\ lastOp' = "none"
  /\ editingId' = IF \E i \in 1..Len(snap) : snap[i].id = editingId
                  THEN editingId ELSE None
  /\ UNCHANGED <<phase, configVars, db, userId, title, description, author,
                 sessionVars, subVars, writes, activationFailed>>

\* snapshot.docs.map(...), sort, setBlogs, setLoading(false)
SnapshotDelivered(u, snap) ==
  /\ phase = "mounted"
  /\ u \in subs
  /\ blogs' = SortBlogs(snap)
  /\ loading' = FALSE
  /\ lastSnapshot' = snap
  /\ blogsFrom' = u
  /\ report' = "none"
  /\ lastOp' = "none"
  /\ UNCHANGED <<phase, configVars, db, userId, formVars, sessionVars,
                 subVars, writes, activationFailed>>

SnapshotErrorClearsList(u) ==
  /\ phase = "mounted"
  /\ u \in subs
  /\ subs' = subs \ {u}
  /\ blogs' = <<>>
  /\ report' = "error:snapshot"
  /\ lastOp' = "none"
  /\ UNCHANGED <<phase, configVars, db, userId, loading, lastSnapshot,
                 blogsFrom, formVars, sessionVars, effectSub, writes,
                 activationFailed>>

\* the error callback: logs; the store ends a listener it reports an error for
SnapshotError(u) ==
  /\ phase = "mounted"
  /\ u \in subs
  /\ subs' = subs \ {u}
  /\ report' = "error:snapshot"
  /\ lastOp' = "none"
  /\ UNCHANGED <<phase, configVars, db, userId, loading, listVars, formVars,
                 sessionVars, effectSub, writes, activationFailed>>

(* ----------------------------- the form -------------------------------- *)
\* onChange of the three inputs
SetField(f, v) ==
  /\ phase = "mounted"
  /\ title' = IF f = "title" THEN v ELSE title
  /\ description' = IF f = "description" THEN v ELSE description
  /\ author' = IF f = "author" THEN v ELSE author
  /\ <<title', description', author'>> # <<title, description, author>>
  /\ report' = "none"
  /\ lastOp' = "none"
  /\ UNCHANGED <<phase, configVars, db, userId, loading, listVars, editingId,
                 sessionVars, subVars, writes, activationFailed>>

handleEditSwapsFields(blog) ==
  /\ phase = "mounted"
  /\ ~loading
  /\ \E i \in 1..Len(blogs) : blogs[i] = blog
  /\ title' = blog.author
  /\ description' = blog.description
  /\ author' = blog.title
  /\ editingId' = blog.id
  /\ report' = "none"
  /\ lastOp' = "none"
  /\ UNCHANGED <<phase, configVars, db, userId, loading, listVars,
                 sessionVars, subVars, writes, activationFailed>>

\* the Edit button of a rendered post
handleEdit(blog) ==
  /\ phase = "mounted"
  /\ ~loading
  /\ \E i \in 1..Len(blogs) : blogs[i] = blog
  /\ title' = blog.title
  /\ description' = blog.description
  /\ author' = blog.author
  /\ editingId' = blog.id
  /\ report' = "none"
  /\ lastOp' = "none"
  /\ UNCHANGED <<phase, configVars, db, userId, loading, listVars,
                 sessionVars, subVars, writes, activationFailed>>

resetFormKeepsAuthor ==
  /\ title' = ""
  /\ description' = ""
  /\ author' = author
  /\ editingId' = None

resetForm ==
  /\ title' = ""
  /\ description' = ""
  /\ author' = ""
  /\ editingId' = None

\* the Cancel button, rendered while editingId is set
Cancel ==
  /\ phase = "mounted"
  /\ editingId # None
  /\ resetForm
  /\ report' = "none"
  /\ lastOp' = "none"
  /\ UNCHANGED <<phase, configVars, db, userId, loading, listVars,
                 sessionVars, subVars, writes, activationFailed>>

\* the pending calls are answered in any order: a bag, not a queue
Pend(b, w) == b (+) SetToBag({w})

Remove(b, w) == b (-) SetToBag({w})

\* handleSubmit up to its await: the validation, then one addDoc or updateDoc;
\* max bounds the calls that may be pending, the code has no such guard
handleSubmitUpTo(max) ==
  /\ phase = "mounted"
  /\ IF ~CanSubmit
     THEN /\ report' = "alert"
          /\ lastOp' = "none"
          /\ UNCHANGED writes
     ELSE /\ BagCardinality(writes) < max
          /\ report' = "none"
          /\ IF editingId # None
             THEN /\ writes' = Pend(writes,
                       [kind |-> "update", path |-> DocPath(userId, editingId),
                        data |-> blogData])
                  /\ lastOp' = "none"
             ELSE /\ writes' = Pend(writes,
                       [kind |-> "create", path |-> CollectionPath(userId),
                        data |-> blogData])
                  /\ lastOp' = "none"
  /\ UNCHANGED <<phase, configVars, db, userId, loading, listVars, formVars,
                 sessionVars, subVars, activationFailed>>

handleSubmit == handleSubmitUpTo(MaxInFlight)

\* the Delete button of a rendered post, up to its await
handleDeleteUpTo(id, max) ==
  /\ phase = "mounted"
  /\ ~loading
  /\ \E i \in 1..Len(blogs) : blogs[i].id = id
  /\ IF ~db \/ userId = None
     THEN /\ lastOp' = "none"
          /\ UNCHANGED writes
     ELSE /\ BagCardinality(writes) < max
          /\ writes' = Pend(writes,
                 [kind |-> "delete", path |-> DocPath(userId, id)])
          /\ lastOp' = "none"
  /\ report' = "none"
  /\ UNCHANGED <<phase, configVars, db, userId, loading, listVars, formVars,
                 sessionVars, subVars, activationFailed>>

handleDelete(id) == handleDeleteUpTo(id, MaxInFlight)

WithoutId(s, id) == SelectSeq(s, LAMBDA b : b.id # id)

WriteAcceptedOptimistic(w) ==
  /\ phase = "mounted"
  /\ w \in BagToSet(writes)
  /\ writes' = Remove(writes, w)
  /\ report' = "none"
  /\ IF w.kind = "delete"
     THEN /\ lastOp' = "delete:accepted"
          /\ blogs' = WithoutId(blogs, w.path[6])
          /\ UNCHANGED formVars
     ELSE /\ lastOp' = w.kind \o ":accepted"
          /\ resetForm
          /\ UNCHANGED blogs
  /\ UNCHANGED <<phase, configVars, db, userId, loading, lastSnapshot,
                 blogsFrom, sessionVars, subVars, activationFailed>>

WriteAcceptedIfUnchanged(w) ==
  /\ phase = "mounted"
  /\ w \in BagToSet(writes)
  /\ writes' = Remove(writes, w)
  /\ report' = "none"
  /\ IF w.kind = "delete"
     THEN /\ lastOp' = "delete:accepted"
          /\ UNCHANGED formVars
     ELSE /\ lastOp' = w.kind \o ":accepted"
          /\ IF <<title, description, author>> =
                  <<w.data.title, w.data.description, w.data.author>>
             THEN resetForm
             ELSE UNCHANGED formVars
  /\ UNCHANGED <<phase, configVars, db, userId, loading, listVars,
                 sessionVars, subVars, activationFailed>>

\* the awaited write resolves: handleSubmit goes on to resetForm(),
\* handleDelete has nothing left to do
WriteAccepted(w) ==
  /\ phase = "mounted"
  /\ w \in BagToSet(writes)
  /\ writes' = Remove(writes, w)
  /\ report' = "none"
  /\ IF w.kind = "delete"
     THEN /\ lastOp' = "delete:accepted"
          /\ UNCHANGED formVars
     ELSE /\ lastOp' = w.kind \o ":accepted"
          /\ resetForm
  /\ UNCHANGED <<phase, configVars, db, userId, loading, listVars,
                 sessionVars, subVars, activationFailed>>

WriteRejectedResets(w) ==
  /\ phase = "mounted"
  /\ w \in BagToSet(writes)
  /\ writes' = Remove(writes, w)
  /\ report' = IF w.kind = "delete" THEN "error:delete" ELSE "error:write"
  /\ lastOp' = w.kind \o ":rejected"
  /\ resetForm
  /\ UNCHANGED <<phase, configVars, db, userId, loading, listVars,
                 sessionVars, subVars, activationFailed>>

\* the awaited write rejects: catch logs
WriteRejected(w) ==
  /\ phase = "mounted"
  /\ w \in BagToSet(writes)
  /\ writes' = Remove(writes, w)
  /\ report' = IF w.kind = "delete" THEN "error:delete" ELSE "error:write"
  /\ lastOp' = w.kind \o ":rejected"
  /\ UNCHANGED <<phase, configVars, db, userId, loading, listVars, formVars,
                 sessionVars, subVars, activationFailed>>

(* --------------------------- specification ----------------------------- *)
\* the session and the list: both effects and their callbacks
SessionNext ==
  \/ Mount
  \/ Unmount
  \/ AuthStateChanged
  \/ \E u \in Users : SignInResolved(u)
  \/ SignInRejected
  \/ ExternalSignOut
  \/ \E u \in Users : SnapshotError(u)

\* the user at the form and the answers to the writes
FormNext ==
  \/ \E f \in FieldNames : \E v \in FieldValues(f) : SetField(f, v)
  \/ \E blog \in Docs : handleEdit(blog)
  \/ Cancel
  \/ handleSubmit
  \/ \E id \in DocIds : handleDelete(id)
  \/ \E w \in BagToSet(writes) : WriteAccepted(w)
  \/ \E w \in BagToSet(writes) : WriteRejected(w)

\* The whole component; the store delivers small snapshots.
Next ==
  \/ SessionNext
  \/ \E u \in Users, snap \in FormSnapshots : SnapshotDelivered(u, snap)
  \/ FormNext

\* no bootstrap token is injected: every sign-in is anonymous
InitNoToken == Init /\ initialAuthToken = FALSE

Spec == InitNoToken /\ [][Next]_vars

\* The session and the list alone (nobody touches the form); the store
\* delivers any snapshot.
ListNext ==
  \/ SessionNext
  \/ \E u \in Users, snap \in Snapshots : SnapshotDelivered(u, snap)

SpecList == Init /\ [][ListNext]_vars

\* The form in depth: the provider hands out the one uid u1, with or without
\* a bootstrap token, and more write calls may be pending.
InitOneUser == Init /\ idpUser \in {None, "u1"}

FormSubmit == handleSubmitUpTo(MaxFormInFlight)

FormDelete(id) == handleDeleteUpTo(id, MaxFormInFlight)

OneUserNext ==
  \/ Mount
  \/ AuthStateChanged
  \/ SignInResolved("u1")
  \/ SignInRejected
  \/ ExternalSignOut
  \/ SnapshotError("u1")
  \/ \E snap \in FormSnapshots : SnapshotDelivered("u1", snap)
  \/ \E f \in FieldNames : \E v \in FieldValues(f) : SetField(f, v)
  \/ \E blog \in Docs : handleEdit(blog)
  \/ Cancel
  \/ FormSubmit
  \/ \E id \in DocIds : FormDelete(id)
  \/ \E w \in BagToSet(writes) : WriteAccepted(w)
  \/ \E w \in BagToSet(writes) : WriteRejected(w)

SpecForm == InitOneUser /\ [][OneUserNext]_vars

TypeOK ==
  /\ phase \in {"init", "mounted", "unmounted"}
  /\ userId \in Users \cup {None}
  /\ subs \subseteq Users
  /\ IsABag(writes)
  /\ BagCardinality(writes) <= MaxFormInFlight

(* ------------------------------ claims --------------------------------- *)
EmptyDraft == <<"", "", "", None>>

\* C1: a submit with an empty required field, or without a user id, issues
\* no write call, shows the validation alert and leaves the Draft as it was.
C1_InvalidSubmitIssuesNothing ==
  [][(handleSubmit /\ (title = "" \/ description = "" \/ author = "" \/ userId = None))
       => (writes' = writes /\ report' = "alert" /\ draft' = draft)]_vars

C1_Witness ==
  /\ report = "alert"
  /\ title # "" /\ description # "" /\ author = ""
  /\ userId # None
  /\ writes = EmptyBag

\* C2: every update call carries the three text fields only, neither an id
\* nor a timestamp.
C2_UpdateCarriesOnlyText ==
  \A w \in BagToSet(writes) :
    w.kind = "update" => DOMAIN w.data = {"title", "description", "author"}

IsPermutation(s, t) ==
  /\ Len(s) = Len(t)
  /\ \A i \in 1..Len(s) : \E j \in 1..Len(t) : s[i] = t[j]

\* C3: the visible list holds exactly the posts of the latest snapshot,
\* pending timestamps first, then resolved timestamps in descending order.
C3_PendingFirstThenDescending ==
  /\ IsPermutation(blogs, lastSnapshot)
  /\ \A i, j \in 1..Len(blogs) :
       i < j =>
         /\ blogs[j].timestamp = Pending => blogs[i].timestamp = Pending
         /\ (blogs[i].timestamp # Pending /\ blogs[j].timestamp # Pending)
              => blogs[i].timestamp >= blogs[j].timestamp

\* C4: at most one collection subscription is live, it is the current user
\* id's, and none is left after the component is unmounted.
C4_AtMostOneLiveSubscription ==
  /\ Cardinality(subs) <= 1
  /\ \A u \in subs : u = userId /\ u = effectSub
  /\ phase = "unmounted" => subs = {}

C4_Witness ==
  /\ userId = "u2"
  /\ subs = {"u2"}
  /\ blogsFrom = "u1"

\* C5: the visible list never shows posts delivered for another user id than
\* the current one.
C5_NoPostsOfPreviousUser ==
  loading \/ blogs = <<>> \/ blogsFrom = userId

\* C6: a subscription is live only while the last identity-provider event
\* reported a user; after an absent event no subscription is live and the
\* user id is absent.
C6_SubscriptionOnlyWhileAuthenticated ==
  /\ subs # {} => (lastAuthEvent = "present" /\ userId # None)
  /\ lastAuthEvent = "absent" => (subs = {} /\ userId = None)

\* C7: loading stays true until a first snapshot has been delivered or
\* activation has failed.
C7_LoadingUntilFirstSnapshot ==
  ~loading => (blogsFrom # None \/ activationFailed)

\* C8: a valid submit with editingId = none issues exactly one create call
\* with the three fields and the server-timestamp request, and the acceptance
\* of a create call resets the Draft.
C8_CreateThenReset ==
  [][/\ (handleSubmit /\ title # "" /\ description # "" /\ author # ""
           /\ userId # None /\ editingId = None)
        => writes' = writes (+) SetToBag({
             [kind |-> "create", path |-> CollectionPath(userId),
              data |-> [title |-> title, description |-> description,
                        author |-> author, timestamp |-> "serverTimestamp"]]})
     /\ \A w \in BagToSet(writes) :
          (WriteAccepted(w) /\ w.kind = "create")
            => (draft' = EmptyDraft
                /\ BagCardinality(writes') = BagCardinality(writes) - 1)]_vars

C8_Witness ==
  /\ lastOp = "create:accepted"
  /\ draft = EmptyDraft
  /\ writes = EmptyBag

C10_OnlySnapshotsChangeList ==
  [][blogs' # blogs
       => \E u \in Users, snap \in FormSnapshots : SnapshotDelivered(u, snap)]_vars

C10_Witness ==
  /\ lastOp = "delete:rejected"
  /\ report = "error:delete"
  /\ blogs # <<>>

\* C11: right after a rejected sign-in, loading is false, the user id is
\* unset and no subscription is live.
C11_RejectedSignInLeavesNoSession ==
  report = "error:auth" => (~loading /\ userId = None /\ subs = {})

\* C12: after the subscription's error callback loading is false and the list
\* is the list held before the error.
C12_SubscriptionErrorKeepsList ==
  [][\A u \in Users : SnapshotError(u) => (~loading' /\ blogs' = blogs)]_vars

C12_Witness ==
  /\ report = "error:snapshot"
  /\ blogs # <<>>
  /\ ~loading
  /\ subs = {}

\* C13: handleEdit copies the post's three fields and its id into the Draft,
\* Cancel empties the Draft, and neither issues a write call.
C13_EditCopiesCancelEmpties ==
  [][/\ \A blog \in Docs :
          handleEdit(blog)
            => (draft' = <<blog.title, blog.description, blog.author, blog.id>>
                /\ writes' = writes)
     /\ Cancel => (draft' = EmptyDraft /\ writes' = writes)]_vars

C13_Witness ==
  /\ draft = <<"t", "d", "a", "p1">>
  /\ \E i \in 1..Len(blogs) : blogs[i].id = "p1"
  /\ writes = EmptyBag

ValidDraft == title # "" /\ description # "" /\ author # ""

\* C14: a create call is addressed to the collection of the user id current
\* at the submit, an update call to editingId in it, a delete call to the id
\* in it, each issued once; without a user id the delete issues nothing.
C14_WritesUnderCurrentUser ==
  [][/\ (handleSubmit /\ ValidDraft /\ userId # None)
        => \E w \in BagToSet(writes') :
             /\ writes' = writes (+) SetToBag({w})
             /\ w.kind = IF editingId = None THEN "create" ELSE "update"
             /\ w.path = IF editingId = None
                         THEN <<"artifacts", appId, "users", userId, "blog_posts">>
                         ELSE <<"artifacts", appId, "users", userId, "blog_posts",
                                editingId>>
     /\ \A id \in DocIds :
          handleDelete(id)
            => IF userId = None
               THEN writes' = writes
               ELSE writes' = writes (+) SetToBag({
                      [kind |-> "delete",
                       path |-> <<"artifacts", appId, "users", userId,
                                  "blog_posts", id>>]})]_vars

C14_Witness ==
  /\ userId = "u2"
  /\ BagToSet(writes) =
       {[kind |-> "delete",
         path |-> <<"artifacts", "app1", "users", "u2", "blog_posts", "p1">>]}

\* C15: a sign-in call is started only by an absent event, one per event and
\* of the kind the bootstrap token decides; a present event starts none; a
\* rejected sign-in and a rejected write are not issued again.
C15_NoAutomaticRetry ==
  [][/\ (AuthStateChanged /\ idpUser = None)
        => (signIn = "none"
            /\ signIn' = IF initialAuthToken THEN "token" ELSE "anon")
     /\ (AuthStateChanged /\ idpUser # None) => signIn' = signIn
     /\ (signIn = "none" /\ signIn' # "none") => (AuthStateChanged /\ idpUser = None)
     /\ SignInRejected => signIn' = "none"
     /\ \A w \in BagToSet(writes) :
          WriteRejected(w)
            => (writes' (+) SetToBag({w}) = writes)]_vars

C15_Witness ==
  /\ report = "error:auth"
  /\ signIn = "none"
  /\ initialAuthToken
  /\ ~authNotify

\* C16: every rendered date is a date, never the placeholder: the formatted
\* server timestamp when it is resolved, a wall-clock date while it is pending.
C16_EveryDateIsADate ==
  \A i \in 1..Len(DisplayedDates) :
    /\ DisplayedDates[i] # "N/A"
    /\ blogs[i].timestamp # Pending
         => DisplayedDates[i] = LocaleString(blogs[i].timestamp)

\* C17: the acceptance of a create or update call empties the Draft whatever
\* the Draft holds by then, and a valid submit issues its call also while
\* another call is pending.
C17_AcceptanceResetsWhateverTheDraft ==
  [][/\ \A w \in BagToSet(writes) :
          (WriteAccepted(w) /\ w.kind # "delete") => draft' = EmptyDraft
     /\ (FormSubmit /\ ValidDraft /\ userId # None)
          => BagCardinality(writes') = BagCardinality(writes) + 1]_vars

C17_Witness ==
  /\ lastOp = "create:accepted"
  /\ draft = EmptyDraft
  /\ \E w \in BagToSet(writes) : w.kind = "create"

\* C18: userId, once set, is never unset (an absent event and a rejected
\* sign-in leave it as it is), and loading, once false, stays false.
C18_UserIdAndLoadingMonotone ==
  [][/\ userId # None => userId' # None
     /\ ~loading => ~loading'
     /\ (AuthStateChanged /\ idpUser = None) => userId' = userId
     /\ SignInRejected => userId' = userId]_vars

C18_Witness ==
  /\ lastAuthEvent = "absent"
  /\ report = "error:auth"
  /\ userId = "u1"
  /\ ~loading

\* C19: the Draft changes only by an input change, handleEdit, Cancel or the
\* acceptance of a create or update call; a valid submit while editing issues
\* an update call against editingId, in the list or not.
C19_OnlyTheFormChangesTheDraft ==
  [][/\ draft' # draft
          => \/ \E f \in FieldNames : \E v \in FieldValues(f) : SetField(f, v)
             \/ \E blog \in Docs : handleEdit(blog)
             \/ Cancel
             \/ \E w \in BagToSet(writes) : WriteAccepted(w) /\ w.kind # "delete"
     /\ (FormSubmit /\ ValidDraft /\ userId # None /\ editingId # None)
          => writes' = writes (+) SetToBag({
               [kind |-> "update", path |-> DocPath(userId, editingId),
                data |-> blogData]})]_vars

C19_Witness ==
  /\ editingId = "p1"
  /\ blogs = <<>>
  /\ blogsFrom = "u1"
  /\ \E w \in BagToSet(writes) : w.kind = "update" /\ w.path[6] = "p1"

====
